---- MODULE Spec2Model ----
(***************************************************************************)
(* Workflow orchestration of the jewelry generation backend:               *)
(* temporal-backend/src/workflows.py (the three workflow classes),         *)
(* temporal-backend/src/activities.py (the activities and poll_job) and    *)
(* the cancel endpoint of temporal-backend/src/api_gateway.py.             *)
(*                                                                         *)
(* One workflow instance is modelled.  The code of a workflow between two  *)
(* awaits runs as one step of the engine's workflow task, so each action   *)
(* below is one such step; signals and queries are handled between them.   *)
(***************************************************************************)
EXTENDS Integers, Sequences, FiniteSets, TLC

None == "None"

\* ------------------------------------------------------------------ bounds
\* Longest brush_strokes list of an input.
MaxStrokes == 1

\* ------------------------------------------------------------- vocabulary
\* models.py: class WorkflowStep
WorkflowStep ==
    { "UPLOADING_IMAGE", "RESIZING_IMAGE", "CHECKING_ZOOM", "REMOVING_BACKGROUND",
      "GENERATING_MASK", "REFINING_MASK", "UPLOADING_MASK", "GENERATING_IMAGES",
      "COMPLETED" }

\* worker.py: the workflows registered on the worker
WorkflowTypes ==
    { "JewelryGenerationWorkflow", "PreprocessingWorkflow", "GenerationWorkflow" }

\* The activities the three workflows execute.
Activities ==
    { "upload_to_azure", "resize_image", "check_zoom", "remove_background",
      "generate_mask", "refine_mask", "generate_images" }

\* The activities that submit a job and then call poll_job.
AsyncJobActivities == { "remove_background", "generate_mask" }

\* workflows.py: IMAGE_PROCESSING_RETRY
IMAGE_PROCESSING_RETRY ==
    [ maximum_attempts |-> 5, non_retryable_error_types |-> {} ]

\* workflows.py: ML_SERVICE_RETRY
ML_SERVICE_RETRY ==
    [ maximum_attempts |-> 3, non_retryable_error_types |-> {"A100UnavailableError"} ]

\* The retry_policy= argument of each workflow.execute_activity call.
RetryPolicyOf_ZoomAsMl(a) ==
    IF a \in {"upload_to_azure", "resize_image"}
    THEN IMAGE_PROCESSING_RETRY
    ELSE ML_SERVICE_RETRY

RetryPolicyOf(a) ==
    IF a \in {"upload_to_azure", "resize_image", "check_zoom"}
    THEN IMAGE_PROCESSING_RETRY
    ELSE ML_SERVICE_RETRY

\* WorkflowInput.brush_strokes: Optional[List[BrushStroke]].  is_none marks
\* Python's None; a stroke is represented by its mode.
StrokeLists(n) ==
    UNION { [1..k -> {"add", "remove"}] : k \in 0..n }

BrushStrokeInputs ==
    { [is_none |-> TRUE, list |-> <<>>] }
      \cup { [is_none |-> FALSE, list |-> l] : l \in StrokeLists(MaxStrokes) }

\* The test `brush_strokes and len(brush_strokes) > 0` of steps 6 (full
\* pipeline) and 1 (generation-only).
HasStrokes_NotNone(bs) == ~bs.is_none

HasStrokes(bs) == (~bs.is_none) /\ Len(bs.list) > 0

\* ---------------------------------------------------------- step sequencing
\* What a workflow's run() schedules next, once the activity `after` has
\* returned ("start": nothing has run yet; "return": run() returns).
NextActivity(wf, after, recommend, bs) ==
    CASE wf = "JewelryGenerationWorkflow" ->
           CASE after = "start"             -> "upload_to_azure"
             [] after = "upload_to_azure"   -> "resize_image"
             [] after = "resize_image"      -> "check_zoom"
             [] after = "check_zoom"        ->
                    IF recommend THEN "remove_background" ELSE "generate_mask"
             [] after = "remove_background" -> "generate_mask"
             [] after = "generate_mask"     ->
                    IF HasStrokes(bs) THEN "refine_mask" ELSE "generate_images"
             [] after = "refine_mask"       -> "generate_images"
             [] OTHER                       -> "return"
      [] wf = "PreprocessingWorkflow" ->
           CASE after = "start"             -> "upload_to_azure"
             [] after = "upload_to_azure"   -> "resize_image"
             [] after = "resize_image"      -> "check_zoom"
             [] after = "check_zoom"        ->
                    IF recommend THEN "remove_background" ELSE "generate_mask"
             [] after = "remove_background" -> "generate_mask"
             [] OTHER                       -> "return"
      [] OTHER ->
           CASE after = "start"             ->
                    IF HasStrokes(bs) THEN "refine_mask" ELSE "generate_images"
             [] after = "refine_mask"       -> "generate_images"
             [] OTHER                       -> "return"

\* Full pipeline, steps 7 and 8: the two _set_progress calls between the
\* last cancellation check and the scheduling of generate_images.
StepsBeforeGenerateImages_Swapped ==
    << <<70, "GENERATING_IMAGES">>, <<60, "UPLOADING_MASK">> >>

StepsBeforeGenerateImages ==
    << <<60, "UPLOADING_MASK">>, <<70, "GENERATING_IMAGES">> >>

\* The _set_progress calls run() makes right before it schedules activity a,
\* in order, each as <<progress, step>>.
StepsSetBefore(wf, a) ==
    CASE wf = "JewelryGenerationWorkflow" ->
           CASE a = "upload_to_azure"   -> << <<5, "UPLOADING_IMAGE">> >>
             [] a = "resize_image"      -> << <<15, "RESIZING_IMAGE">> >>
             [] a = "check_zoom"        -> << <<20, "CHECKING_ZOOM">> >>
             [] a = "remove_background" -> << <<30, "REMOVING_BACKGROUND">> >>
             [] a = "generate_mask"     -> << <<45, "GENERATING_MASK">> >>
             [] a = "refine_mask"       -> << <<55, "REFINING_MASK">> >>
             [] OTHER                   -> StepsBeforeGenerateImages
      [] wf = "PreprocessingWorkflow" ->
           CASE a = "upload_to_azure"   -> << <<10, "UPLOADING_IMAGE">> >>
             [] a = "resize_image"      -> << <<30, "RESIZING_IMAGE">> >>
             [] a = "check_zoom"        -> << <<40, "CHECKING_ZOOM">> >>
             [] a = "remove_background" -> << <<60, "REMOVING_BACKGROUND">> >>
             [] OTHER                   -> << <<80, "GENERATING_MASK">> >>
      [] OTHER ->
           CASE a = "refine_mask"       -> << <<20, "REFINING_MASK">> >>
             [] OTHER                   -> << <<50, "GENERATING_IMAGES">> >>

\* The _set_progress call run() makes before it returns its output.
StepSetOnReturn_Forgotten(wf) ==
    IF wf = "GenerationWorkflow"
    THEN <<50, "GENERATING_IMAGES">> ELSE <<100, "COMPLETED">>

StepSetOnReturn(wf) == <<100, "COMPLETED">>

\* total_steps of get_progress.
total_steps(wf) ==
    CASE wf = "JewelryGenerationWorkflow" -> 8
      [] wf = "PreprocessingWorkflow"     -> 5
      [] OTHER                            -> 2

\* steps_completed of get_progress when self._progress is p:
\* int((p / 100) * total_steps), the product truncated.
steps_completed_OfEight(wf, p) == (p * 8) \div 100

steps_completed(wf, p) == (p * total_steps(wf)) \div 100

\* Whether run() tests self._cancelled between the return of activity
\* `after` and the next thing it does.
CancelCheckedAfter(wf, after) ==
    /\ wf = "JewelryGenerationWorkflow"
    /\ after \in { "upload_to_azure", "resize_image", "check_zoom",
                    "remove_background", "generate_mask", "refine_mask" }

\* ------------------------------------------------------------ activity layer
\* What the external collaborator of activity a can answer to one invocation
\* (for an async job: the outcome of its poll loop).
Responses(a) ==
    CASE a = "upload_to_azure"     -> { "stored", "storage_error" }
      [] a = "resize_image"        -> { "resized", "http_error" }
      [] a = "check_zoom"          -> { "remove_bg", "keep_bg", "http_error" }
      [] a \in AsyncJobActivities  ->
             { "completed", "succeeded", "failed", "poll_timeout", "http_error" }
      [] a = "refine_mask"         -> { "mask", "empty_mask", "http_error", "unavailable" }
      [] OTHER                     -> { "images", "http_error", "unavailable" }

\* poll_job: the exception class it raises for the way the poll loop ends,
\* None when it returns the job data.
poll_job(ending) ==
    CASE ending = "poll_timeout" -> "TimeoutError"
      [] ending = "failed"       -> "Exception"
      [] OTHER                   -> None

\* The exception class an invocation of activity a raises on response r (every
\* activity re-raises what its body raised), None when it returns a result.
Raises(a, r) ==
    CASE r = "http_error"        -> "HTTPStatusError"
      [] r = "storage_error"     -> "AzureError"
      [] r = "unavailable"       -> "ConnectError"
      [] a \in AsyncJobActivities -> poll_job(r)
      [] OTHER                   -> None

\* The engine's retry decision for an attempt that raised errType: it runs
\* the activity again unless the policy names the error type non-retryable or
\* this was attempt number maximum_attempts.
ShouldRetry(policy, errType, n) ==
    /\ errType \notin policy.non_retryable_error_types
    /\ n < policy.maximum_attempts

\* --------------------------------------------------------- workflow locals
\* The local variables of run() that reach its output.
InitLocals(wf) ==
    [ original_uri           |-> None,
      resized_uri            |-> IF wf = "GenerationWorkflow" THEN "image_in" ELSE None,
      recommend_bg_removal   |-> FALSE,
      image_for_segmentation |-> None,
      background_removed     |-> FALSE,
      mask_uri               |-> IF wf = "GenerationWorkflow" THEN "mask_in" ELSE None,
      refined_mask_uri       |-> None,
      final_mask_uri         |-> IF wf = "GenerationWorkflow" THEN "mask_in" ELSE None,
      flux_result_uri        |-> None ]

\* refine_mask's result: the uploaded refined mask, or its input mask when
\* the service answered without mask_base64.
refine_mask(r, mask_uri) == IF r = "mask" THEN "refined_mask" ELSE mask_uri

\* run()'s assignments from the result of activity a (response r).
ApplyResult(a, r, l) ==
    CASE a = "upload_to_azure"   -> [l EXCEPT !.original_uri = "original"]
      [] a = "resize_image"      -> [l EXCEPT !.resized_uri = "resized"]
      [] a = "check_zoom"        ->
             [l EXCEPT !.recommend_bg_removal   = (r = "remove_bg"),
                       !.image_for_segmentation = l.resized_uri,
                       !.background_removed     = FALSE]
      [] a = "remove_background" ->
             [l EXCEPT !.image_for_segmentation = "bg_removed",
                       !.background_removed     = TRUE]
      [] a = "generate_mask"     ->
             [l EXCEPT !.mask_uri = "mask", !.final_mask_uri = "mask"]
      [] a = "refine_mask"       ->
             [l EXCEPT !.refined_mask_uri = refine_mask(r, l.mask_uri),
                       !.final_mask_uri   = refine_mask(r, l.mask_uri)]
      [] OTHER                   -> [l EXCEPT !.flux_result_uri = "flux_result"]

NoResult == [ kind |-> None ]

\* The value run() returns.
Output_BgUriAlways(wf, l) ==
    CASE wf = "JewelryGenerationWorkflow" ->
           [ kind               |-> "WorkflowOutput",
             flux_result_uri    |-> l.flux_result_uri,
             processed_image_uri |-> l.resized_uri,
             final_mask_uri     |-> l.final_mask_uri,
             background_removed |-> l.background_removed ]
      [] wf = "PreprocessingWorkflow" ->
           [ kind             |-> "dict",
             originalUri      |-> l.original_uri,
             resizedUri       |-> l.resized_uri,
             maskUri          |-> l.mask_uri,
             bgRemovedUri     |-> l.image_for_segmentation,
             backgroundRemoved |-> l.background_removed ]
      [] OTHER ->
           [ kind          |-> "dict",
             fluxResultUri |-> l.flux_result_uri,
             finalMaskUri  |-> l.final_mask_uri ]

Output(wf, l) ==
    CASE wf = "JewelryGenerationWorkflow" ->
           [ kind               |-> "WorkflowOutput",
             flux_result_uri    |-> l.flux_result_uri,
             processed_image_uri |-> l.resized_uri,
             final_mask_uri     |-> l.final_mask_uri,
             background_removed |-> l.background_removed ]
      [] wf = "PreprocessingWorkflow" ->
           [ kind             |-> "dict",
             originalUri      |-> l.original_uri,
             resizedUri       |-> l.resized_uri,
             maskUri          |-> l.mask_uri,
             bgRemovedUri     |-> IF l.background_removed
                                  THEN l.image_for_segmentation ELSE None,
             backgroundRemoved |-> l.background_removed ]
      [] OTHER ->
           [ kind          |-> "dict",
             fluxResultUri |-> l.flux_result_uri,
             finalMaskUri  |-> l.final_mask_uri ]

\* -------------------------------------------------------------------- state
VARIABLES
    wfType,          \* which workflow class this instance runs
    brush_strokes,   \* the input's brush_strokes
    status,          \* the engine's execution status of the instance
    pc,              \* "start": run() not entered; "await": in execute_activity; "closed"
    progress,        \* self._progress
    current_step,    \* self._current_step
    cancelled,       \* self._cancelled
    locals,          \* run()'s local variables
    result,          \* what run() returned
    scheduled,       \* the activities run() has scheduled, in order
    attempt,         \* invocations so far of the last scheduled activity
    inflight,        \* activities with an invocation executing on a worker
    lastError,       \* the failed invocation the engine last recorded
    gw,              \* position of the gateway's cancel_workflow request
    stepLog,         \* history: every step value _set_progress has stored
    anyAttemptFailed,\* history: some activity invocation has raised
    flagSetAt,       \* history: Len(scheduled) when _cancelled became true, -1 before
    gs,              \* position of the gateway's get_workflow_status request
    desc,            \* get_workflow_status: what safe_describe gave
    response,        \* get_workflow_status: the answer it sent
    answered,        \* history: the terminal status an earlier answer carried
    mask_input,      \* compare_masks_fidelity / get_jewelry_bbox: first mask
    mask_output,     \* compare_masks_fidelity: second mask
    called,          \* which of the mask functions has been applied
    bbox,            \* what get_jewelry_bbox returned
    metrics,         \* what compare_masks_fidelity returned
    transform,       \* what detect_transformations returned
    poll_pc,         \* poll_job: where the loop is, or how it ended
    clock,           \* poll_job: seconds since start_time
    requests,        \* poll_job: status requests issued so far
    poll_status,     \* poll_job: data.get("status", "unknown") of the last response
    waited,          \* history: seconds from the last response to the last request
    respondedAt,     \* history: clock when the loop last went to sleep
    shim,            \* which of safe_describe, safe_query, safe_result is called
    shim_outs,       \* how each RPC attempt of the call would end
    shim_result,     \* what the call gave
    batch,           \* BatchProcessingWorkflow.run: its position and locals
    credit,          \* use_generation_credit: the users row and the calls on it
    job,             \* a batch_jobs row and the operations applied to it
    creation         \* create_batch_job: the credits row, the calls, the rows

\* The state of the status endpoint and of the mask functions.
pollVars == << poll_pc, clock, requests, poll_status, waited, respondedAt >>

\* The state of the components specified after the status endpoint and the
\* mask functions.
shimVars == << shim, shim_outs, shim_result >>

\* The state of BatchProcessingWorkflow and of the repositories.
repoVars == << batch, credit, job, creation >>

laterVars == << pollVars, shimVars, repoVars >>

ext ==
    << gs, desc, response, answered, mask_input, mask_output, called, bbox, metrics,
       transform, laterVars >>

vars ==
    << wfType, brush_strokes, status, pc, progress, current_step, cancelled,
       locals, result, scheduled, attempt, inflight, lastError, gw, stepLog,
       anyAttemptFailed, flagSetAt, ext >>

\* No exception: the call returned.
NoExc == [ exc |-> None, status |-> None ]

NoDescription == [ kind |-> None, status |-> None, error |-> NoExc ]

\* The null of the response's Optional[int] progress.
NoProgress == -1

\* The null of the response's Optional[dict] error.
NoErrorBody == [ code |-> None, message |-> None ]

NoResponse ==
    [ kind |-> None, status |-> None, progress |-> NoProgress,
      currentStep |-> None, result |-> NoResult, error |-> NoErrorBody,
      http |-> 0, via |-> None,
      \* history: the status safe_describe returned, the exception it raised
      \* and what the fallback safe_result gave
      described |-> None, raised |-> NoExc, fetched |-> None ]

\* No status request is in progress.
StatusEndpointIdle ==
    /\ gs = "idle"
    /\ desc = NoDescription
    /\ response = NoResponse
    /\ answered = None

NoMask == [ w |-> 0, h |-> 0, px |-> << >> ]

NoBBox == [ kind |-> None ]

NoMetrics == [ kind |-> None ]

NoTransform == [ kind |-> None ]

\* No mask function has been called.
MaskFunctionsIdle ==
    /\ mask_input = NoMask
    /\ mask_output = NoMask
    /\ called = None
    /\ bbox = NoBBox
    /\ metrics = NoMetrics
    /\ transform = NoTransform

NoError == [ activity |-> None, type |-> None, response |-> None ]

\* The activity run() is awaiting.
Current == scheduled[Len(scheduled)]

\* __init__ of the three workflow classes, for an instance the gateway has
\* just started.
WorkflowInit ==
    /\ wfType \in WorkflowTypes
    /\ brush_strokes \in BrushStrokeInputs
    /\ status = "RUNNING"
    /\ pc = "start"
    /\ progress = 0
    /\ current_step = IF wfType = "GenerationWorkflow"
                      THEN "REFINING_MASK" ELSE "UPLOADING_IMAGE"
    /\ cancelled = FALSE
    /\ locals = InitLocals(wfType)
    /\ result = NoResult
    /\ scheduled = << >>
    /\ attempt = 0
    /\ inflight = {}
    /\ lastError = NoError
    /\ gw = "idle"
    /\ stepLog = << >>
    /\ anyAttemptFailed = FALSE
    /\ flagSetAt = -1

NoShimResult ==
    [ returned |-> FALSE, value |-> None, error |-> NoExc, attempts |-> 0 ]

\* poll_job has not been called.
PollIdle ==
    /\ poll_pc = "idle"
    /\ clock = 0
    /\ requests = 0
    /\ poll_status = None
    /\ waited = 0
    /\ respondedAt = 0

\* The components specified after the mask functions are idle.
\* No RPC shim is being exercised on its own.
ShimIdle ==
    /\ shim = None
    /\ shim_outs = << >>
    /\ shim_result = NoShimResult

\* BatchImageResult of image img.
ImageResult(img, ok) == [ image_id |-> img, success |-> ok ]

NoBatchOutput ==
    [ total_images |-> -1, completed_images |-> -1, failed_images |-> -1,
      results |-> << >>, email_sent |-> FALSE ]

\* BatchProcessingWorkflow.run not entered.
NoBatch ==
    [ pc |-> "idle", images |-> << >>, results |-> << >>, completed |-> 0,
      failed |-> 0, scheduled |-> << >>, attempt |-> 0, output |-> NoBatchOutput ]

\* No users row under consideration and no use_generation_credit call.
NoCredit ==
    [ pc |-> "idle", exists |-> FALSE, free_generations_used |-> 0,
      free_generations_limit |-> 0, paid_generations_available |-> 0,
      lock |-> 0, calls |-> << >>, used0 |-> 0, paid0 |-> 0 ]

\* No batch_jobs row under consideration.
NoJob ==
    [ pc |-> "idle", status |-> None, log |-> << >>, terminal |-> None,
      returned |-> None ]

\* No user_batch_credits row under consideration and no create_batch_job call.
NoCreation ==
    [ pc |-> "idle", free_batches_used |-> 0, free_batches_limit |-> 0,
      calls |-> << >>, batch_jobs |-> << >>, used0 |-> 0 ]

BatchIdle == batch = NoBatch

CreditIdle == credit = NoCredit

JobIdle == job = NoJob

CreationIdle == creation = NoCreation

RepoIdle == BatchIdle /\ CreditIdle /\ JobIdle /\ CreationIdle

LaterIdle == PollIdle /\ ShimIdle /\ RepoIdle

\* An execution just started, no status request made, no mask function called.
Init ==
    /\ WorkflowInit
    /\ StatusEndpointIdle
    /\ MaskFunctionsIdle
    /\ LaterIdle

\* _set_progress, for each <<progress, step>> of ps in order.
SetProgress(ps) ==
    /\ progress' = ps[Len(ps)][1]
    /\ current_step' = ps[Len(ps)][2]
    /\ stepLog' = stepLog \o [i \in 1..Len(ps) |-> ps[i][2]]

\* run() up to and including `await workflow.execute_activity(a, ...)`: the
\* first invocation of a starts.
Schedule(a) ==
    /\ SetProgress(StepsSetBefore(wfType, a))
    /\ scheduled' = Append(scheduled, a)
    /\ attempt' = 1
    /\ pc' = "await"
    /\ UNCHANGED << status, result >>

\* run() returns its output.
Return(l) ==
    /\ SetProgress(<< StepSetOnReturn(wfType) >>)
    /\ status' = "COMPLETED"
    /\ result' = Output(wfType, l)
    /\ pc' = "closed"
    /\ UNCHANGED << scheduled, attempt >>

\* run() raises: the execution closes with status st and no result.
Raise(st) ==
    /\ status' = st
    /\ pc' = "closed"
    /\ UNCHANGED << progress, current_step, stepLog, result, scheduled, attempt >>

\* The first workflow task: run() from its first line to its first await.
WorkflowStart ==
    /\ status = "RUNNING" /\ pc = "start"
    /\ LET first == NextActivity(wfType, "start", locals.recommend_bg_removal,
                                 brush_strokes)
       IN  Schedule(first) /\ inflight' = inflight \cup {first}
    /\ UNCHANGED << wfType, brush_strokes, cancelled, locals, lastError, gw,
                    anyAttemptFailed, flagSetAt >>
    /\ UNCHANGED ext

\* An invocation of the awaited activity returns its result; run() resumes
\* and runs to its next await, its return or its cancellation check.
ActivityReturns(r) ==
    /\ status = "RUNNING" /\ pc = "await"
    /\ r \in Responses(Current)
    /\ Raises(Current, r) = None
    /\ LET a == Current
           l == ApplyResult(a, r, locals)
           nxt == NextActivity(wfType, a, l.recommend_bg_removal, brush_strokes)
       IN  /\ locals' = l
           /\ lastError' = NoError
           /\ IF CancelCheckedAfter(wfType, a) /\ cancelled
              THEN Raise("CANCELED") /\ inflight' = inflight \ {a}
              ELSE IF nxt = "return"
                   THEN Return(l) /\ inflight' = inflight \ {a}
                   ELSE Schedule(nxt) /\ inflight' = (inflight \ {a}) \cup {nxt}
    /\ UNCHANGED << wfType, brush_strokes, cancelled, gw, anyAttemptFailed, flagSetAt >>
    /\ UNCHANGED ext

\* An invocation of the awaited activity raises.  The engine either starts
\* the next invocation (the backoff wait is not modelled) or fails the
\* activity, and then run() re-raises from its except clause: the execution
\* closes FAILED.
ActivityAttemptFails(r) ==
    /\ status = "RUNNING" /\ pc = "await"
    /\ r \in Responses(Current)
    /\ Raises(Current, r) # None
    /\ lastError' = [ activity |-> Current, type |-> Raises(Current, r), response |-> r ]
    /\ anyAttemptFailed' = TRUE
    /\ IF ShouldRetry(RetryPolicyOf(Current), Raises(Current, r), attempt)
       THEN /\ attempt' = attempt + 1
            /\ UNCHANGED << status, pc, progress, current_step, stepLog, result,
                            scheduled, inflight >>
       ELSE /\ Raise("FAILED")
            /\ inflight' = inflight \ {Current}
    /\ UNCHANGED << wfType, brush_strokes, cancelled, locals, gw, flagSetAt >>
    /\ UNCHANGED ext

\* cancel_workflow, first RPC: handle.signal(JewelryGenerationWorkflow.cancel).
\* The signal is named "cancel", which all three workflow classes handle by
\* setting self._cancelled.  A closed execution rejects the signal and the
\* endpoint answers with an error without calling handle.cancel().
GatewaySignalCancel ==
    /\ gw = "idle"
    /\ IF status = "RUNNING"
       THEN /\ cancelled' = TRUE
            /\ flagSetAt' = IF cancelled THEN flagSetAt ELSE Len(scheduled)
            /\ gw' = "signalled"
       ELSE /\ gw' = "error"
            /\ UNCHANGED << cancelled, flagSetAt >>
    /\ UNCHANGED << wfType, brush_strokes, status, pc, progress, current_step,
                    locals, result, scheduled, attempt, inflight, lastError,
                    stepLog, anyAttemptFailed >>
    /\ UNCHANGED ext

\* cancel_workflow, second RPC: handle.cancel().  The engine cancels a running
\* execution: the cancellation is raised in run() at the await it is blocked
\* in (or before its first line), no except clause of run() swallows it, and
\* the execution closes CANCELED.  The invocation in flight is not waited for.
GatewayRequestCancel ==
    /\ gw = "signalled"
    /\ gw' = "done"
    /\ IF status = "RUNNING"
       THEN Raise("CANCELED")
       ELSE UNCHANGED << status, pc, progress, current_step, stepLog, result,
                         scheduled, attempt >>
    /\ UNCHANGED << wfType, brush_strokes, cancelled, locals, inflight, lastError,
                    anyAttemptFailed, flagSetAt >>
    /\ UNCHANGED ext

\* cancel_workflow: an RPC raises RPCError and the endpoint answers 404 or 500;
\* nothing reaches the execution.
GatewayRpcError ==
    /\ gw \in { "idle", "signalled" }
    /\ gw' = "error"
    /\ UNCHANGED << wfType, brush_strokes, status, pc, progress, current_step,
                    cancelled, locals, result, scheduled, attempt, inflight,
                    lastError, stepLog, anyAttemptFailed, flagSetAt >>
    /\ UNCHANGED ext

\* The invocation that was in flight when the execution closed comes to its
\* own end on the worker; its outcome is discarded.
AbandonedActivityEnds ==
    /\ status # "RUNNING"
    /\ inflight # {}
    /\ inflight' = {}
    /\ UNCHANGED << wfType, brush_strokes, status, pc, progress, current_step,
                    cancelled, locals, result, scheduled, attempt, lastError, gw,
                    stepLog, anyAttemptFailed, flagSetAt >>
    /\ UNCHANGED ext

AllResponses == UNION { Responses(a) : a \in Activities }

Next ==
    \/ WorkflowStart
    \/ \E r \in AllResponses : ActivityReturns(r)
    \/ \E r \in AllResponses : ActivityAttemptFails(r)
    \/ GatewaySignalCancel
    \/ GatewayRequestCancel
    \/ GatewayRpcError
    \/ AbandonedActivityEnds

Spec == Init /\ [][Next]_vars

\* The worker runs every workflow task it is handed, and every activity
\* invocation comes to an end (bounded external call, start_to_close timeout).
InvocationEnds ==
    \E r \in AllResponses : ActivityReturns(r) \/ ActivityAttemptFails(r)

FairSpec ==
    Spec /\ WF_vars(WorkflowStart) /\ WF_vars(InvocationEnds)

TypeOK ==
    /\ status \in { "RUNNING", "COMPLETED", "FAILED", "CANCELED" }
    /\ pc \in { "start", "await", "closed" }
    /\ progress \in 0..100
    /\ current_step \in WorkflowStep
    /\ cancelled \in BOOLEAN
    /\ inflight \subseteq Activities
    /\ attempt \in 0..5

\* ---------------------------------------------------------- status endpoint
\* WorkflowExecutionStatus, the statuses handle.describe() reports.
EngineStatuses ==
    { "RUNNING", "COMPLETED", "FAILED", "CANCELED", "TERMINATED", "TIMED_OUT",
      "CONTINUED_AS_NEW" }

\* The engine closes the execution for a reason outside run(): an operator
\* terminates it, its execution timeout passes, or it continues as new.
EngineCloses(st) ==
    /\ status = "RUNNING"
    /\ st \in { "TERMINATED", "TIMED_OUT", "CONTINUED_AS_NEW" }
    /\ status' = st
    /\ pc' = "closed"
    /\ UNCHANGED << wfType, brush_strokes, progress, current_step, cancelled,
                    locals, result, scheduled, attempt, inflight, lastError, gw,
                    stepLog, anyAttemptFailed, flagSetAt >>
    /\ UNCHANGED ext

_TRANSIENT_RPC_STATUSES == { "CANCELLED", "DEADLINE_EXCEEDED" }

\* How one RPC of the status endpoint can end: it returns, asyncio.wait_for
\* times out, the client raises RPCError with a status code, or the await is
\* cancelled.
RpcOutcomes ==
    { NoExc,
      [ exc |-> "TimeoutError",   status |-> None ],
      [ exc |-> "CancelledError", status |-> None ] }
    \cup { [ exc |-> "RPCError", status |-> c ] :
             c \in { "CANCELLED", "DEADLINE_EXCEEDED", "NOT_FOUND", "UNAVAILABLE" } }

\* except clauses of safe_describe, safe_query and safe_result that swallow
\* the exception.
IsTransient_NotFoundToo(o) ==
    \/ o.exc \in { "TimeoutError", "CancelledError" }
    \/ o.exc = "RPCError" /\ o.status \in _TRANSIENT_RPC_STATUSES \cup { "NOT_FOUND" }

IsTransient(o) ==
    \/ o.exc \in { "TimeoutError", "CancelledError" }
    \/ o.exc = "RPCError" /\ o.status \in _TRANSIENT_RPC_STATUSES

\* The for loop of safe_describe and safe_query from attempt i on, outs[i]
\* being how attempt i ends: return at the first attempt that returns, re-raise
\* at the first RPCError that is not transient, raise last_error after the
\* last attempt.  attempts counts the RPCs made.
RECURSIVE RetryLoop(_, _, _)
RetryLoop(outs, i, last_error) ==
    IF i > Len(outs)
    THEN [ returned |-> FALSE, error |-> last_error, attempts |-> i - 1 ]
    ELSE IF outs[i] = NoExc
         THEN [ returned |-> TRUE, error |-> NoExc, attempts |-> i ]
         ELSE IF IsTransient(outs[i])
              THEN RetryLoop(outs, i + 1, outs[i])
              ELSE [ returned |-> FALSE, error |-> outs[i], attempts |-> i ]

DescribeRetries == 3

QueryRetries == 2

safe_describe(outs) == RetryLoop(outs, 1, NoExc)

safe_query(outs) == RetryLoop(outs, 1, NoExc)

\* safe_result: handle.result() of an execution in engine status st whose
\* run() returned res.  The RPC returns only once the execution is closed:
\* with res when it completed, raising WorkflowFailureError otherwise.
safe_result(o, st, res) ==
    LET end == IF o = NoExc /\ st \in { "RUNNING", "CONTINUED_AS_NEW" }
               THEN [ exc |-> "TimeoutError", status |-> None ] ELSE o
    IN  IF end = NoExc
        THEN IF st = "COMPLETED"
             THEN [ kind |-> "value", value |-> res, error |-> NoExc ]
             ELSE [ kind |-> "raise", value |-> NoResult,
                    error |-> [ exc |-> "WorkflowFailureError", status |-> None ] ]
        ELSE IF IsTransient(end)
             THEN [ kind |-> "none", value |-> NoResult, error |-> NoExc ]
             ELSE [ kind |-> "raise", value |-> NoResult, error |-> end ]

\* asdict of the dataclass, or the dict itself.
_convert_result(res) == [ res EXCEPT !.kind = "dict" ]

\* status_map.get(desc.status, "UNKNOWN").
status_map_TerminatedFails(s) ==
    CASE s = "RUNNING"          -> "RUNNING"
      [] s = "COMPLETED"        -> "COMPLETED"
      [] s = "FAILED"           -> "FAILED"
      [] s = "CANCELED"         -> "CANCELLED"
      [] s = "TERMINATED"       -> "FAILED"
      [] s = "TIMED_OUT"        -> "FAILED"
      [] s = "CONTINUED_AS_NEW" -> "RUNNING"
      [] OTHER                  -> "UNKNOWN"

status_map(s) ==
    CASE s = "RUNNING"          -> "RUNNING"
      [] s = "COMPLETED"        -> "COMPLETED"
      [] s = "FAILED"           -> "FAILED"
      [] s = "CANCELED"         -> "CANCELLED"
      [] s = "TERMINATED"       -> "CANCELLED"
      [] s = "TIMED_OUT"        -> "FAILED"
      [] s = "CONTINUED_AS_NEW" -> "RUNNING"
      [] OTHER                  -> "UNKNOWN"

\* WorkflowStatusResponse(...), sent with HTTP 200.
Answer(st, pr, step, res, err, via) ==
    [ NoResponse EXCEPT !.kind = "response", !.status = st, !.progress = pr,
                        !.currentStep = step, !.result = res, !.error = err,
                        !.http = 200, !.via = via ]

\* raise HTTPException(status_code=code).
HttpError(code) == [ NoResponse EXCEPT !.kind = "http_error", !.http = code ]

\* An exception no except clause of the endpoint catches.
Unhandled == [ NoResponse EXCEPT !.kind = "unhandled", !.http = 500 ]

\* The endpoint's outer `except RPCError`.
OuterExcept(e) ==
    IF e.exc = "RPCError"
    THEN IF e.status = "NOT_FOUND" THEN HttpError(404) ELSE HttpError(500)
    ELSE Unhandled

\* safe_describe raised an Exception e and the fallback safe_result gave r
\* without raising: COMPLETED with the result when there is one, RUNNING at
\* progress 0 otherwise.
DescribeFailedResponse_CancelledRpc(e, r) ==
    IF r.kind = "value"
    THEN Answer("COMPLETED", 100, "COMPLETED", _convert_result(r.value),
                NoErrorBody, "fallback")
    ELSE IF e.exc = "RPCError" /\ e.status = "CANCELLED"
         THEN Answer("CANCELLED", 0, "CANCELLED", NoResult,
                     [ code |-> "WORKFLOW_CANCELLED",
                       message |-> "Workflow was cancelled" ], "fallback")
         ELSE Answer("RUNNING", 0, "PROCESSING", NoResult, NoErrorBody, "fallback")

DescribeFailedResponse(e, r) ==
    IF r.kind = "value"
    THEN Answer("COMPLETED", 100, "COMPLETED", _convert_result(r.value),
                NoErrorBody, "fallback")
    ELSE Answer("RUNNING", 0, "PROCESSING", NoResult, NoErrorBody, "fallback")

\* The RUNNING branch: q is what safe_query gave, pr and step what
\* get_progress returns.  CancelledError is not an Exception.
RunningResponse(q, pr, step) ==
    IF q.returned
    THEN Answer("RUNNING", pr, step, NoResult, NoErrorBody, "query")
    ELSE IF q.error.exc = "CancelledError"
         THEN Unhandled
         ELSE Answer("RUNNING", 0, "PROCESSING", NoResult, NoErrorBody, "query")

\* The COMPLETED branch: r is what safe_result(handle, timeout=5.0) gave.
CompletedResponse(r) ==
    IF r.kind = "raise"
    THEN OuterExcept(r.error)
    ELSE Answer("COMPLETED", 100, "COMPLETED",
                IF r.kind = "value" THEN _convert_result(r.value) ELSE NoResult,
                NoErrorBody, "result")

FailedResponse ==
    Answer("FAILED", 0, "FAILED", NoResult,
           [ code |-> "WORKFLOW_FAILED", message |-> "Workflow execution failed" ],
           "describe")

CancelledResponse ==
    Answer("CANCELLED", 0, "CANCELLED", NoResult,
           [ code |-> "WORKFLOW_CANCELLED", message |-> "Workflow was cancelled" ],
           "describe")

\* get_workflow_status after safe_describe: d is what safe_describe gave, o
\* how the handle.result() RPC ends, q what safe_query gives.
StatusResponse(d, o, q) ==
    IF d.kind = "raised"
    THEN IF d.error.exc = "CancelledError"
         THEN [ Unhandled EXCEPT !.raised = d.error ]
         ELSE LET r == safe_result(o, status, result)
                  a == IF r.kind = "raise"
                       THEN OuterExcept(r.error)
                       ELSE DescribeFailedResponse(d.error, r)
              IN  [ a EXCEPT !.raised = d.error, !.fetched = r.kind ]
    ELSE LET workflow_status == status_map(d.status)
             a == CASE workflow_status = "RUNNING" ->
                         RunningResponse(q, progress, current_step)
                    [] workflow_status = "COMPLETED" ->
                         CompletedResponse(safe_result(o, status, result))
                    [] workflow_status = "FAILED" -> FailedResponse
                    [] workflow_status = "CANCELLED" -> CancelledResponse
                    [] OTHER ->
                         Answer(workflow_status, NoProgress, None, NoResult,
                                NoErrorBody, "describe")
         IN  [ a EXCEPT !.described = d.status ]

wfVars ==
    << wfType, brush_strokes, status, pc, progress, current_step, cancelled,
       locals, result, scheduled, attempt, inflight, lastError, gw, stepLog,
       anyAttemptFailed, flagSetAt >>

maskVars == << mask_input, mask_output, called, bbox, metrics, transform >>

\* What safe_describe can give, over every way its attempts can end.
DescribeResults ==
    { safe_describe(outs) : outs \in [ 1..DescribeRetries -> RpcOutcomes ] }

\* What safe_query can give, over every way its attempts can end.
QueryResults ==
    { safe_query(outs) : outs \in [ 1..QueryRetries -> RpcOutcomes ] }

\* get_workflow_status, step 1: safe_describe(handle), up to three
\* handle.describe() RPCs.
GetStatusDescribe ==
    /\ gs = "idle"
    /\ gs' = "described"
    /\ \E d \in DescribeResults :
         desc' = IF d.returned
                 THEN [ kind |-> "ok", status |-> status, error |-> NoExc ]
                 ELSE [ kind |-> "raised", status |-> None, error |-> d.error ]
    /\ UNCHANGED << response, answered, wfVars, maskVars, laterVars >>

\* get_workflow_status, step 2: the fallback or the enrichment, and the answer.
GetStatusRespond ==
    /\ gs = "described"
    /\ gs' = "responded"
    /\ response' \in { StatusResponse(desc, o, q) :
                          o \in RpcOutcomes, q \in QueryResults }
    /\ desc' = NoDescription
    /\ UNCHANGED << answered, wfVars, maskVars, laterVars >>

\* The client has the answer; its next poll can start.
GetStatusAgain ==
    /\ gs = "responded"
    /\ gs' = "idle"
    /\ desc' = NoDescription
    /\ response' = NoResponse
    /\ answered' = IF /\ response.kind = "response"
                      /\ response.status \in { "COMPLETED", "FAILED", "CANCELLED" }
                   THEN response.status
                   ELSE answered
    /\ UNCHANGED << wfVars, maskVars, laterVars >>

GatewayNext ==
    \/ Next
    \/ \E st \in EngineStatuses : EngineCloses(st)
    \/ GetStatusDescribe
    \/ GetStatusRespond
    \/ GetStatusAgain

\* An execution just started, with or without a brush stroke in its input,
\* and no status request made.
GatewayInit ==
    /\ Init
    /\ brush_strokes \in { [ is_none |-> TRUE, list |-> << >> ],
                           [ is_none |-> FALSE, list |-> << "add" >> ] }

\* One execution, the engine and a client polling the status endpoint.
GatewaySpec == GatewayInit /\ [][GatewayNext]_vars

\* ------------------------------------------------------------ mask functions
\* The largest number of pixels of a mask.
MaxPixels == 4

\* Pixel values of a single-channel mask: the two around the threshold.
PixelValues == { 127, 128 }

\* The shapes <<width, height>> of the masks.
Shapes ==
    { sh \in (1..MaxPixels) \X (1..MaxPixels) : sh[1] * sh[2] <= MaxPixels }

\* A mask is its width, its height and its rows of pixel values.
Masks ==
    UNION { { [ w |-> sh[1], h |-> sh[2], px |-> p ] :
                p \in [ 1..sh[2] -> [ 1..sh[1] -> PixelValues ] ] } :
            sh \in Shapes }

Min(S) == CHOOSE v \in S : \A u \in S : v <= u

Max(S) == CHOOSE v \in S : \A u \in S : v >= u

\* `arr < 128`: the <<row, column>> indices, from 0, of the jewelry pixels.
Foreground(m) ==
    { c \in (0..(m.h - 1)) \X (0..(m.w - 1)) : m.px[c[1] + 1][c[2] + 1] < 128 }

\* x_max - x_min + 1.
Extent_OneShort(lo, hi) == hi - lo

Extent(lo, hi) == hi - lo + 1

\* A float, kept as the quotient it was computed as.
Frac(n, d) == [ num |-> n, den |-> d ]

get_jewelry_bbox(m) ==
    LET coords == Foreground(m)
    IN  IF coords = {}
        THEN NoBBox
        ELSE LET y_min == Min({ c[1] : c \in coords })
                 x_min == Min({ c[2] : c \in coords })
                 y_max == Max({ c[1] : c \in coords })
                 x_max == Max({ c[2] : c \in coords })
             IN  [ kind     |-> "dict",
                   x        |-> x_min,
                   y        |-> y_min,
                   width    |-> Extent(x_min, x_max),
                   height   |-> Extent(y_min, y_max),
                   center_x |-> Frac(x_min + x_max, 2),
                   center_y |-> Frac(y_min + y_max, 2) ]

\* Image.resize((w, h), NEAREST): output pixel (x, y) is the input pixel at
\* (floor((x + 0.5) * m.w / w), floor((y + 0.5) * m.h / h)).
Resize(m, w, h) ==
    [ w |-> w, h |-> h,
      px |-> [ y \in 1..h |-> [ x \in 1..w |->
                 m.px[(((2 * y - 1) * m.h) \div (2 * h)) + 1]
                     [(((2 * x - 1) * m.w) \div (2 * w)) + 1] ] ] ]

\* The vector returned when a mask is None or the input mask has no jewelry.
DegenerateMetrics ==
    [ kind |-> "dict", iou |-> Frac(0, 1), dice |-> Frac(0, 1),
      precision |-> Frac(0, 1), recall |-> Frac(0, 1),
      growth_ratio |-> Frac(1, 1), extra_area_fraction |-> Frac(0, 1) ]

\* `if area_input == 0:`.
AreaInputIsZero_Unchecked(area_input) == FALSE

AreaInputIsZero(area_input) == area_input = 0

\* dice: (2 * intersection) / (area_input + area_output), 0 for no area.
Dice_NotDoubled(intersection, area_input, area_output) ==
    IF area_input + area_output > 0
    THEN Frac(intersection, area_input + area_output) ELSE Frac(0, 1)

Dice(intersection, area_input, area_output) ==
    IF area_input + area_output > 0
    THEN Frac(2 * intersection, area_input + area_output) ELSE Frac(0, 1)

MetricNames ==
    { "iou", "dice", "precision", "recall", "growth_ratio", "extra_area_fraction" }

compare_masks_fidelity(mi, mo) ==
    IF mi = NoMask \/ mo = NoMask
    THEN DegenerateMetrics
    ELSE LET out == IF << mi.w, mi.h >> # << mo.w, mo.h >>
                    THEN Resize(mo, mi.w, mi.h) ELSE mo
             input_arr == Foreground(mi)
             output_arr == Foreground(out)
             area_input == Cardinality(input_arr)
             area_output == Cardinality(output_arr)
             intersection == Cardinality(input_arr \cap output_arr)
             union == Cardinality(input_arr \cup output_arr)
             m == [ kind |-> "dict",
                    iou |-> IF union > 0 THEN Frac(intersection, union)
                                         ELSE Frac(0, 1),
                    dice |-> Dice(intersection, area_input, area_output),
                    precision |-> IF area_output > 0
                                  THEN Frac(intersection, area_output)
                                  ELSE Frac(0, 1),
                    recall |-> IF area_input > 0
                               THEN Frac(intersection, area_input)
                               ELSE Frac(0, 1),
                    growth_ratio |-> Frac(area_output, area_input),
                    extra_area_fraction |->
                        Frac(Max({ 0, area_output - area_input }), area_input) ]
         IN  IF AreaInputIsZero(area_input)
             THEN DegenerateMetrics
             ELSE IF \E f \in MetricNames : m[f].den = 0
                  THEN [ kind |-> "ZeroDivisionError" ]
                  ELSE m

\* The masks handed to the functions; None for a mask that is missing.
MaskInit ==
    /\ WorkflowInit
    /\ wfType = "JewelryGenerationWorkflow"
    /\ brush_strokes = [ is_none |-> TRUE, list |-> << >> ]
    /\ StatusEndpointIdle
    /\ mask_input \in Masks \cup { NoMask }
    /\ mask_output \in Masks \cup { NoMask }
    /\ called = None
    /\ bbox = NoBBox
    /\ metrics = NoMetrics
    /\ transform = NoTransform
    /\ LaterIdle

CallBBox ==
    /\ called = None
    /\ mask_input # NoMask
    /\ called' = "get_jewelry_bbox"
    /\ bbox' = get_jewelry_bbox(mask_input)
    /\ UNCHANGED << mask_input, mask_output, metrics, transform, wfVars, gs, desc,
                    response, answered, laterVars >>

CallCompare ==
    /\ called = None
    /\ called' = "compare_masks_fidelity"
    /\ metrics' = compare_masks_fidelity(mask_input, mask_output)
    /\ UNCHANGED << mask_input, mask_output, bbox, transform, wfVars, gs, desc,
                    response, answered, laterVars >>

MaskNext == CallBBox \/ CallCompare

\* The mask functions applied to every mask, and pair of masks, of the bounds.
MaskSpec == MaskInit /\ [][MaskNext]_vars

\* ------------------------------------------------------ transform detection
\* The side of the square canvas the rectangles are drawn on.
MaxCanvas == 4

\* A mask of the canvas's size whose jewelry (value 0 on 255) is the
\* axis-aligned rectangle with top-left pixel (x0, y0), width rw, height rh.
RectangleMask(x0, y0, rw, rh) ==
    [ w |-> MaxCanvas, h |-> MaxCanvas,
      px |-> [ y \in 1..MaxCanvas |-> [ x \in 1..MaxCanvas |->
                 IF /\ x0 <= x - 1 /\ x - 1 < x0 + rw
                    /\ y0 <= y - 1 /\ y - 1 < y0 + rh
                 THEN 0 ELSE 255 ] ] ]

RectangleMasks ==
    { RectangleMask(r[1], r[2], r[3], r[4]) :
        r \in { q \in (0..(MaxCanvas - 1)) \X (0..(MaxCanvas - 1))
                      \X (1..MaxCanvas) \X (1..MaxCanvas) :
                  q[1] + q[3] <= MaxCanvas /\ q[2] + q[4] <= MaxCanvas } }

\* The sum of the second components of a set of pairs.
RECURSIVE SumValues(_)
SumValues(P) ==
    IF P = {}
    THEN 0
    ELSE LET c == CHOOSE c \in P : TRUE
         IN  c[2] + SumValues(P \ { c })

\* cv2.moments of the 0/255 image of the jewelry pixels: the raw moments, and
\* the central moments multiplied by m00 (mu20 = m20 - m10 * m10 / m00).
moments(m) ==
    LET fg == Foreground(m)
        m00 == SumValues({ << c, 255 >> : c \in fg })
        m10 == SumValues({ << c, 255 * c[2] >> : c \in fg })
        m01 == SumValues({ << c, 255 * c[1] >> : c \in fg })
        m20 == SumValues({ << c, 255 * c[2] * c[2] >> : c \in fg })
        m02 == SumValues({ << c, 255 * c[1] * c[1] >> : c \in fg })
        m11 == SumValues({ << c, 255 * c[2] * c[1] >> : c \in fg })
    IN  [ m00 |-> m00,
          mu20 |-> Frac(m20 * m00 - m10 * m10, m00),
          mu02 |-> Frac(m02 * m00 - m01 * m01, m00),
          mu11 |-> Frac(m11 * m00 - m10 * m01, m00) ]

\* An angle in degrees; when it is not a multiple of 90 it is kept as the
\* arguments of the arctan2 it is half of.
Degrees(d) == [ exact |-> TRUE, deg |-> d, y |-> 0, x |-> 0 ]

\* 0.5 * arctan2(y, x) in degrees: arctan2(0, x) is 0 for x >= 0 and 180 for
\* x < 0.
HalfArctan2(y, x) ==
    IF y = 0
    THEN IF x >= 0 THEN Degrees(0) ELSE Degrees(90)
    ELSE [ exact |-> FALSE, deg |-> 0, y |-> y, x |-> x ]

get_jewelry_orientation(m) ==
    LET mo == moments(m)
    IN  IF mo.mu20 = mo.mu02
        THEN Degrees(0)
        ELSE HalfArctan2(2 * mo.mu11.num, mo.mu20.num - mo.mu02.num)

\* out_angle - in_angle.
AngleDifference(a, b) ==
    IF a.exact /\ b.exact
    THEN Degrees(a.deg - b.deg)
    ELSE [ exact |-> FALSE, deg |-> 0, y |-> a.y - b.y, x |-> a.x - b.x ]

\* a - b of two floats.
FracSub_Reversed(a, b) == Frac(b.num * a.den - a.num * b.den, a.den * b.den)

FracSub(a, b) == Frac(a.num * b.den - b.num * a.den, a.den * b.den)

detect_transformations(mi, mo) ==
    LET in_bbox == get_jewelry_bbox(mi)
        out_bbox == get_jewelry_bbox(mo)
    IN  IF in_bbox = NoBBox \/ out_bbox = NoBBox
        THEN NoTransform
        ELSE [ kind |-> "dict",
               translation |->
                   [ x |-> FracSub(out_bbox.center_x, in_bbox.center_x),
                     y |-> FracSub(out_bbox.center_y, in_bbox.center_y) ],
               scale |->
                   [ x |-> IF in_bbox.width > 0
                           THEN Frac(out_bbox.width, in_bbox.width)
                           ELSE Frac(1, 1),
                     y |-> IF in_bbox.height > 0
                           THEN Frac(out_bbox.height, in_bbox.height)
                           ELSE Frac(1, 1) ],
               rotation |-> AngleDifference(get_jewelry_orientation(mo),
                                            get_jewelry_orientation(mi)),
               input_bbox |-> in_bbox,
               output_bbox |-> out_bbox ]

\* The input and output masks each hold one axis-aligned rectangle.
TransformInit ==
    /\ WorkflowInit
    /\ wfType = "JewelryGenerationWorkflow"
    /\ brush_strokes = [ is_none |-> TRUE, list |-> << >> ]
    /\ StatusEndpointIdle
    /\ mask_input \in RectangleMasks
    /\ mask_output \in RectangleMasks
    /\ called = None
    /\ bbox = NoBBox
    /\ metrics = NoMetrics
    /\ transform = NoTransform
    /\ LaterIdle

CallDetect ==
    /\ called = None
    /\ called' = "detect_transformations"
    /\ transform' = detect_transformations(mask_input, mask_output)
    /\ UNCHANGED << mask_input, mask_output, bbox, metrics, wfVars, gs, desc,
                    response, answered, laterVars >>

\* detect_transformations applied to every pair of rectangle masks.
TransformSpec == TransformInit /\ [][CallDetect]_vars

\* ------------------------------------------------------------ async-job poll
\* poll_job's defaults, in seconds; both callers use them.
poll_interval == 2

timeout == 120

\* The longest a status request takes, in seconds.
MaxRequestSeconds == 2

\* data.get("status", "unknown") of a response: the statuses the loop names,
\* one it does not, and the default for a missing status.
JobStatuses == { "completed", "succeeded", "failed", "processing", "unknown" }

\* `if status in ("completed", "succeeded")`.
IsDone_CompletedOnly(st) == st = "completed"

IsDone(st) == st \in { "completed", "succeeded" }

otherVarsOfPoll ==
    << wfVars, gs, desc, response, answered, maskVars, shimVars, repoVars >>

\* An activity calls poll_job: start_time is taken.
PollInit ==
    /\ WorkflowInit
    /\ wfType = "JewelryGenerationWorkflow"
    /\ brush_strokes = [ is_none |-> TRUE, list |-> << >> ]
    /\ StatusEndpointIdle
    /\ MaskFunctionsIdle
    /\ poll_pc = "check"
    /\ clock = 0
    /\ requests = 0
    /\ poll_status = None
    /\ waited = 0
    /\ respondedAt = 0
    /\ ShimIdle
    /\ RepoIdle

\* Top of the loop: elapsed is computed and compared with timeout.
PollCheckTimeout ==
    /\ poll_pc = "check"
    /\ poll_pc' = IF clock > timeout THEN "TimeoutError" ELSE "get"
    /\ UNCHANGED << clock, requests, poll_status, waited, respondedAt >>
    /\ UNCHANGED otherVarsOfPoll

\* http_client.get(.../jobs/{job_id}) answers after d seconds with status st,
\* and the loop returns, raises or goes to sleep.
PollRequest(d, st) ==
    /\ poll_pc = "get"
    /\ requests' = requests + 1
    /\ waited' = clock - respondedAt
    /\ clock' = clock + d
    /\ poll_status' = st
    /\ UNCHANGED respondedAt
    /\ poll_pc' = IF IsDone(st) THEN "returned"
                  ELSE IF st = "failed" THEN "Exception" ELSE "sleep"
    /\ UNCHANGED otherVarsOfPoll

\* The request answers with an HTTP error status: raise_for_status() raises.
PollRequestHttpError(d) ==
    /\ poll_pc = "get"
    /\ requests' = requests + 1
    /\ waited' = clock - respondedAt
    /\ clock' = clock + d
    /\ poll_pc' = "HTTPStatusError"
    /\ UNCHANGED << poll_status, respondedAt >>
    /\ UNCHANGED otherVarsOfPoll

\* await asyncio.sleep(poll_interval).
PollSleep ==
    /\ poll_pc = "sleep"
    /\ respondedAt' = clock
    /\ clock' = clock + poll_interval
    /\ poll_pc' = "check"
    /\ UNCHANGED << requests, poll_status, waited >>
    /\ UNCHANGED otherVarsOfPoll

PollNext ==
    \/ PollCheckTimeout
    \/ \E d \in 0..MaxRequestSeconds, st \in JobStatuses : PollRequest(d, st)
    \/ \E d \in 0..MaxRequestSeconds : PollRequestHttpError(d)
    \/ PollSleep

PollSpec == PollInit /\ [][PollNext]_vars

\* The event loop runs the coroutine whenever it can continue: every status
\* request returns and every sleep ends.
PollFairSpec == PollSpec /\ WF_vars(PollNext)

\* ------------------------------------------------------------------ RPC shims
Shims == { "safe_describe", "safe_query", "safe_result" }

\* The RPCs a call of the shim can make: its retries, one for safe_result.
AttemptsOf(sh) ==
    CASE sh = "safe_describe" -> DescribeRetries
      [] sh = "safe_query"    -> QueryRetries
      [] OTHER                -> 1

\* The shim sh called when its attempts end as outs; for safe_result the
\* execution is completed, so that an RPC that returns has a value.
ShimCallResult(sh, outs) ==
    IF sh = "safe_result"
    THEN LET r == safe_result(outs[1], "COMPLETED", [ kind |-> "dict" ])
         IN  [ returned |-> r.kind # "raise",
               value    |-> IF r.kind = "value" THEN "value" ELSE None,
               error    |-> r.error,
               attempts |-> 1 ]
    ELSE LET r == IF sh = "safe_describe" THEN safe_describe(outs)
                                          ELSE safe_query(outs)
         IN  [ returned |-> r.returned,
               value    |-> IF r.returned THEN "value" ELSE None,
               error    |-> r.error,
               attempts |-> r.attempts ]

otherVarsOfShim ==
    << wfVars, gs, desc, response, answered, maskVars, pollVars, repoVars >>

\* A shim is about to be called; shim_outs is how its RPCs would end.
ShimInit ==
    /\ WorkflowInit
    /\ wfType = "JewelryGenerationWorkflow"
    /\ brush_strokes = [ is_none |-> TRUE, list |-> << >> ]
    /\ StatusEndpointIdle
    /\ MaskFunctionsIdle
    /\ PollIdle
    /\ RepoIdle
    /\ shim \in Shims
    /\ shim_outs \in [ 1..AttemptsOf(shim) -> RpcOutcomes ]
    /\ shim_result = NoShimResult

ShimCall ==
    /\ shim_result = NoShimResult
    /\ shim_result' = ShimCallResult(shim, shim_outs)
    /\ UNCHANGED << shim, shim_outs >>
    /\ UNCHANGED otherVarsOfShim

\* Each shim under every way its RPC attempts can end.
ShimSpec == ShimInit /\ [][ShimCall]_vars

\* ------------------------------------------------------------ batch workflow
\* The most images a batch has.
MaxImages == 3

\* input.images as the image_id of each image, in order: ids are distinct.
ImageLists ==
    { imgs \in UNION { [ 1..n -> 1..MaxImages ] : n \in 0..MaxImages } :
        \A i, j \in DOMAIN imgs : imgs[i] = imgs[j] => i = j }

BatchActivities ==
    { "fetch_user_info", "send_batch_started_email", "generate_images",
      "send_batch_completion_email" }

\* retry_policy of run(): maximum_attempts.
maximum_attempts == 3

\* Whether run() awaits activity a inside its try / except Exception.
CatchesActivityError_None(a) == FALSE

CatchesActivityError(a) == a = "generate_images"

\* `await workflow.execute_activity(a, ...)`; img is 0 when a is not about
\* an image.
BatchSchedule(b, a, img) ==
    [ b EXCEPT !.pc = a,
               !.scheduled = Append(@, [ activity |-> a, image |-> img ]),
               !.attempt = 1 ]

\* The for loop after an iteration has appended its result, or before the
\* first: the next image, or past the loop the completion email.
NextIteration(b) ==
    IF Len(b.results) < Len(b.images)
    THEN BatchSchedule(b, "generate_images", b.images[Len(b.results) + 1])
    ELSE BatchSchedule(b, "send_batch_completion_email", 0)

\* The image the awaited generate_images is about.
CurrentImage(b) == b.scheduled[Len(b.scheduled)].image

\* The states unrelated to the batch workflow, idle.
FrontIdle ==
    /\ WorkflowInit
    /\ wfType = "JewelryGenerationWorkflow"
    /\ brush_strokes = [ is_none |-> TRUE, list |-> << >> ]
    /\ StatusEndpointIdle
    /\ MaskFunctionsIdle
    /\ PollIdle
    /\ ShimIdle

otherVarsOfBatch ==
    << wfVars, gs, desc, response, answered, maskVars, pollVars, shimVars,
       credit, job, creation >>

\* The engine has started an execution of run() with some input.
BatchInit ==
    /\ FrontIdle
    /\ CreditIdle /\ JobIdle /\ CreationIdle
    /\ batch \in { [ NoBatch EXCEPT !.pc = "start", !.images = imgs ] :
                     imgs \in ImageLists }

\* The first workflow task: run() up to its first await.
BatchStart ==
    /\ batch.pc = "start"
    /\ batch' = BatchSchedule(batch, "fetch_user_info", 0)
    /\ UNCHANGED otherVarsOfBatch

\* The awaited activity returns; run() goes on to its next await or returns.
BatchActivityReturns(success) ==
    /\ batch.pc \in BatchActivities
    /\ batch' =
         CASE batch.pc = "fetch_user_info" ->
                BatchSchedule(batch, "send_batch_started_email", 0)
           [] batch.pc = "send_batch_started_email" ->
                NextIteration(batch)
           [] batch.pc = "generate_images" ->
                NextIteration([ batch EXCEPT
                    !.results = Append(@, ImageResult(CurrentImage(batch), TRUE)),
                    !.completed = @ + 1 ])
           [] OTHER ->
                [ batch EXCEPT
                    !.pc = "returned",
                    !.output = [ total_images     |-> Len(batch.images),
                                 completed_images |-> batch.completed,
                                 failed_images    |-> batch.failed,
                                 results          |-> batch.results,
                                 email_sent       |-> success ] ]
    /\ UNCHANGED otherVarsOfBatch

\* An invocation of the awaited activity raises and the engine starts another.
BatchAttemptRetried ==
    /\ batch.pc \in BatchActivities
    /\ batch.attempt < maximum_attempts
    /\ batch' = [ batch EXCEPT !.attempt = @ + 1 ]
    /\ UNCHANGED otherVarsOfBatch

\* The last invocation of the awaited activity raises: execute_activity
\* raises ActivityError in run().
BatchActivityFails ==
    /\ batch.pc \in BatchActivities
    /\ batch.attempt = maximum_attempts
    /\ batch' =
         IF CatchesActivityError(batch.pc)
         THEN NextIteration([ batch EXCEPT
                  !.results = Append(@, ImageResult(CurrentImage(batch), FALSE)),
                  !.failed = @ + 1 ])
         ELSE [ batch EXCEPT !.pc = "failed" ]
    /\ UNCHANGED otherVarsOfBatch

BatchNext ==
    \/ BatchStart
    \/ \E success \in BOOLEAN : BatchActivityReturns(success)
    \/ BatchAttemptRetried
    \/ BatchActivityFails

\* One execution of BatchProcessingWorkflow.
BatchSpec == BatchInit /\ [][BatchNext]_vars

\* -------------------------------------------------------- generation credits
\* The most concurrent use_generation_credit calls, and the most credits of
\* either kind a users row starts with.
MaxCalls == 2

MaxCredits == 2

Calls == 1..MaxCalls

\* A call that has not yet run its SELECT.
NewCall == [ pc |-> "select", returned |-> None, took |-> None ]

\* The users rows a call can find: used within the limit, paid not negative.
\* used0 and paid0 keep the row's first values.
UserRow(ex, limit, used, paid) ==
    [ NoCredit EXCEPT !.pc = "active", !.exists = ex,
                      !.free_generations_used = used,
                      !.free_generations_limit = limit,
                      !.paid_generations_available = paid,
                      !.calls = [ c \in Calls |-> NewCall ],
                      !.used0 = used, !.paid0 = paid ]

UserRows ==
    UNION { { UserRow(ex, limit, used, paid) :
                ex \in BOOLEAN, used \in 0..limit, paid \in 0..MaxCredits } :
            limit \in 0..MaxCredits }

\* SELECT ... FOR UPDATE waits while another transaction holds the row lock.
RowLockFree_NoLock(holder) == TRUE

RowLockFree(holder) == holder = 0

otherVarsOfCredit ==
    << wfVars, gs, desc, response, answered, maskVars, pollVars, shimVars,
       batch, job, creation >>

\* Concurrent calls of use_generation_credit for one user_id.
CreditInit ==
    /\ FrontIdle
    /\ BatchIdle /\ JobIdle /\ CreationIdle
    /\ credit \in UserRows

\* The transaction begins and its SELECT ... FOR UPDATE returns: the row is
\* locked and read, and the branch to take is decided; with no row the call
\* is about to return False.
CreditSelectForUpdate(c) ==
    /\ credit.pc = "active"
    /\ credit.calls[c].pc = "select"
    /\ credit.exists => RowLockFree(credit.lock)
    /\ LET free_remaining ==
               credit.free_generations_limit - credit.free_generations_used
           branch == IF ~credit.exists THEN "return_false"
                     ELSE IF free_remaining > 0 THEN "update_free"
                     ELSE IF credit.paid_generations_available > 0
                          THEN "update_paid"
                          ELSE "return_false"
       IN  credit' = [ credit EXCEPT !.calls[c].pc = branch,
                                     !.lock = IF credit.exists THEN c ELSE @ ]
    /\ UNCHANGED otherVarsOfCredit

\* UPDATE users SET free_generations_used = free_generations_used + 1.
CreditUpdateFree(c) ==
    /\ credit.calls[c].pc = "update_free"
    /\ credit' = [ credit EXCEPT !.free_generations_used = @ + 1,
                                 !.calls[c].pc = "return_true",
                                 !.calls[c].took = "free" ]
    /\ UNCHANGED otherVarsOfCredit

\* UPDATE users SET paid_generations_available = paid_generations_available - 1.
CreditUpdatePaid(c) ==
    /\ credit.calls[c].pc = "update_paid"
    /\ credit' = [ credit EXCEPT !.paid_generations_available = @ - 1,
                                 !.calls[c].pc = "return_true",
                                 !.calls[c].took = "paid" ]
    /\ UNCHANGED otherVarsOfCredit

\* The return leaves `async with self.pool.transaction()`: the transaction
\* commits, which releases the row lock it holds.
CreditReturn(c) ==
    /\ credit.calls[c].pc \in { "return_true", "return_false" }
    /\ credit' = [ credit EXCEPT
                     !.calls[c].returned =
                         IF credit.calls[c].pc = "return_true" THEN "True" ELSE "False",
                     !.calls[c].pc = "done",
                     !.lock = IF @ = c THEN 0 ELSE @ ]
    /\ UNCHANGED otherVarsOfCredit

CreditNext ==
    \E c \in Calls :
        \/ CreditSelectForUpdate(c)
        \/ CreditUpdateFree(c)
        \/ CreditUpdatePaid(c)
        \/ CreditReturn(c)

CreditSpec == CreditInit /\ [][CreditNext]_vars

\* ---------------------------------------------------------- batch job status
\* The most repository operations applied to the row.
MaxOps == 4

\* BatchJob.is_complete.
is_complete(st) == st \in { "completed", "failed", "cancelled" }

\* An UPDATE of the row's status to st where the WHERE clause matches when
\* `matches`: the new row, the operation logged, the first terminal status the
\* row has had, and whether RETURNING * gave a row.
UpdateStatus(j, op, st, matches) ==
    [ j EXCEPT !.status = IF matches THEN st ELSE @,
               !.log = Append(@, op),
               !.terminal = IF @ = None /\ matches /\ is_complete(st) THEN st ELSE @,
               !.returned = IF matches THEN "row" ELSE None ]

otherVarsOfJob ==
    << wfVars, gs, desc, response, answered, maskVars, pollVars, shimVars,
       batch, credit, creation >>

\* create_batch_job has inserted the row with status PENDING.
JobInit ==
    /\ FrontIdle
    /\ BatchIdle /\ CreditIdle /\ CreationIdle
    /\ job = [ NoJob EXCEPT !.pc = "row", !.status = "pending" ]

\* UPDATE batch_jobs SET status = 'processing' ... WHERE id = $1.
start_batch_processing ==
    /\ job.pc = "row" /\ Len(job.log) < MaxOps
    /\ job' = UpdateStatus(job, "start_batch_processing", "processing", TRUE)
    /\ UNCHANGED otherVarsOfJob

\* UPDATE batch_jobs SET status = COMPLETED or FAILED ... WHERE id = $1.
complete_batch_job(success) ==
    /\ job.pc = "row" /\ Len(job.log) < MaxOps
    /\ job' = UpdateStatus(job, "complete_batch_job",
                           IF success THEN "completed" ELSE "failed", TRUE)
    /\ UNCHANGED otherVarsOfJob

\* UPDATE batch_jobs SET status = 'cancelled' ...
\* WHERE id = $1 AND status IN ('pending', 'processing').
cancel_batch_job ==
    /\ job.pc = "row" /\ Len(job.log) < MaxOps
    /\ job' = UpdateStatus(job, "cancel_batch_job", "cancelled",
                           job.status \in { "pending", "processing" })
    /\ UNCHANGED otherVarsOfJob

JobNext ==
    \/ start_batch_processing
    \/ \E success \in BOOLEAN : complete_batch_job(success)
    \/ cancel_batch_job

\* One batch_jobs row under any sequence of the three operations.
JobSpec == JobInit /\ [][JobNext]_vars

\* ------------------------------------------------------- batch job creation
\* The most concurrent create_batch_job calls.
MaxCreateCalls == 3

CreateCalls == 1..MaxCreateCalls

\* UserBatchCredits.has_free_batch_available, which the SQL function of the
\* same name computes for the user's row.
has_free_batch_available(cr) == cr.free_batches_used < cr.free_batches_limit

\* The values free_batches_used can have after SELECT use_free_batch($1): one
\* more while a free batch is available; the function's text is not in the
\* repository, so when none is available it either leaves the row or counts.
use_free_batch(cr) ==
    IF has_free_batch_available(cr)
    THEN { cr.free_batches_used + 1 }
    ELSE { cr.free_batches_used, cr.free_batches_used + 1 }

\* The credits rows create_batch_job can find, each with concurrent calls
\* about to start.
CreditsRows ==
    UNION { { [ NoCreation EXCEPT !.pc = "active",
                                  !.free_batches_used = used,
                                  !.free_batches_limit = limit,
                                  !.calls = [ c \in CreateCalls |->
                                                [ pc |-> "check", is_free |-> FALSE ] ],
                                  !.used0 = used ] :
                used \in 0..limit } :
            limit \in 1..MaxCredits }

otherVarsOfCreation ==
    << wfVars, gs, desc, response, answered, maskVars, pollVars, shimVars,
       batch, credit, job >>

CreationInit ==
    /\ FrontIdle
    /\ BatchIdle /\ CreditIdle /\ JobIdle
    /\ creation \in CreditsRows

\* is_free = await self.has_free_batch_available(user_id).
CreateCheck(c) ==
    /\ creation.pc = "active"
    /\ creation.calls[c].pc = "check"
    /\ creation' = [ creation EXCEPT
                       !.calls[c].is_free = has_free_batch_available(creation),
                       !.calls[c].pc = "insert" ]
    /\ UNCHANGED otherVarsOfCreation

\* INSERT INTO batch_jobs (..., is_free_batch, ...) with is_free.
CreateInsert(c) ==
    /\ creation.calls[c].pc = "insert"
    /\ creation' = [ creation EXCEPT
                       !.batch_jobs = Append(@, [ by |-> c,
                                                  is_free_batch |-> creation.calls[c].is_free ]),
                       !.calls[c].pc = IF creation.calls[c].is_free
                                       THEN "use" ELSE "done" ]
    /\ UNCHANGED otherVarsOfCreation

\* if is_free: await self._use_free_batch(user_id); return the job.
CreateUseFreeBatch(c) ==
    /\ creation.calls[c].pc = "use"
    /\ \E used \in use_free_batch(creation) :
         creation' = [ creation EXCEPT !.free_batches_used = used,
                                       !.calls[c].pc = "done" ]
    /\ UNCHANGED otherVarsOfCreation

CreationNext ==
    \E c \in CreateCalls :
        \/ CreateCheck(c)
        \/ CreateInsert(c)
        \/ CreateUseFreeBatch(c)

\* Concurrent create_batch_job calls for one user.
CreationSpec == CreationInit /\ [][CreationNext]_vars

\* ------------------------------------------------------------------- claims
Terminal == status # "RUNNING"

IsFull == wfType = "JewelryGenerationWorkflow"

Ran(a) == \E i \in 1..Len(scheduled) : scheduled[i] = a

\* Position of x in the sequence order, 0 when it is not in it.
Rank(order, x) ==
    IF \E i \in 1..Len(order) : order[i] = x
    THEN CHOOSE i \in 1..Len(order) : order[i] = x
    ELSE 0

\* seq holds only members of order, in strictly increasing position.
FollowsOrder(order, seq) ==
    /\ \A i \in 1..Len(seq) : Rank(order, seq[i]) > 0
    /\ \A i \in 1..Len(seq) : \A j \in 1..Len(seq) :
           i < j => Rank(order, seq[i]) < Rank(order, seq[j])

\* Every member of order before the last element of seq is in seq, unless it
\* is one of the optional ones.
OnlyOptionalAbsent(order, optional, seq) ==
    \A i \in 1..Len(seq) : \A k \in 1..Len(order) :
        (k < Rank(order, seq[i]) /\ order[k] \notin optional)
            => \E j \in 1..Len(seq) : seq[j] = order[k]

\* C1: in each of the three workflow variants and for every branch
\* combination, when no cancellation is delivered and no activity invocation
\* raises, the workflow eventually closes COMPLETED; and whenever it is
\* COMPLETED its progress is 100, its current step is COMPLETED and its
\* output is not null.
C1_CompletedState ==
    status = "COMPLETED" =>
        /\ progress = 100
        /\ current_step = "COMPLETED"
        /\ result # NoResult

C1_AllSucceedCompletes ==
    /\ [] C1_CompletedState
    /\ <> (cancelled \/ gw = "done" \/ anyAttemptFailed \/ status = "COMPLETED")

C1_Witness ==
    /\ status = "COMPLETED" /\ progress = 100 /\ result # NoResult
    /\ ~cancelled /\ gw = "idle" /\ ~anyAttemptFailed
    /\ wfType = "GenerationWorkflow" /\ Len(scheduled) = 2

\* C2: in the full pipeline, once the cancel signal has set the cancellation
\* flag the workflow never sets COMPLETED and never returns an output.
C2_NeverCompletesAfterFlag ==
    (IsFull /\ cancelled) => (status # "COMPLETED" /\ result = NoResult)

\* C3: in the preprocessing-only and generation-only workflows, once the
\* cancel signal has set the cancellation flag no activity of a later step is
\* scheduled and the workflow does not close COMPLETED.
C3_FlagObservedAtBoundary ==
    (~IsFull /\ cancelled) =>
        /\ status # "COMPLETED"
        /\ Len(scheduled) <= (IF flagSetAt = 0 THEN 1 ELSE flagSetAt)

\* C4: the workflow never closes while an activity invocation is still in
\* flight: a cancellation requested through the gateway lets the invocation
\* return before the workflow terminates.
C4_NoCloseWhileInFlight ==
    Terminal => inflight = {}

\* C5: a workflow whose cancellation is delivered before any of its
\* activities has been scheduled produces no output and does not close
\* COMPLETED.
C5_CancelledBeforeStartNoOutput ==
    (flagSetAt = 0) => (status # "COMPLETED" /\ result = NoResult)

\* The maximum number of invocations the claims state for each activity.
ClaimedMaxAttempts(a) ==
    IF a \in {"upload_to_azure", "resize_image", "check_zoom"} THEN 5 ELSE 3

\* C6: no activity is invoked more often than its retry policy's maximum
\* number of attempts (5 for upload, resize and zoom-check, 3 for the four
\* ML-service activities), and when the workflow is FAILED because every
\* invocation of an activity raised, that activity was invoked exactly that
\* many times.
C6_AttemptsBounded ==
    /\ Len(scheduled) > 0 => attempt \in 1..ClaimedMaxAttempts(Current)
    /\ status = "FAILED" =>
           /\ lastError.activity = Current
           /\ attempt = ClaimedMaxAttempts(Current)

C6_Witness ==
    /\ status = "FAILED" /\ Current = "check_zoom" /\ attempt = 5

\* C7: an invocation that ended on the remote status `failed` is never
\* followed by another invocation of the activity: the activity was invoked
\* exactly once and the workflow is FAILED.
C7_JobFailedNotRetried ==
    (lastError.response = "failed") => (attempt = 1 /\ status = "FAILED")

\* The step value the claims pair with each activity.
ClaimedStepOf(a) ==
    CASE a = "upload_to_azure"   -> "UPLOADING_IMAGE"
      [] a = "resize_image"      -> "RESIZING_IMAGE"
      [] a = "check_zoom"        -> "CHECKING_ZOOM"
      [] a = "remove_background" -> "REMOVING_BACKGROUND"
      [] a = "generate_mask"     -> "GENERATING_MASK"
      [] a = "refine_mask"       -> "REFINING_MASK"
      [] OTHER                   -> "GENERATING_IMAGES"

\* C8: when a workflow is FAILED, the last activity it scheduled is the one
\* that failed terminally, nothing is in flight, there is no output, and the
\* step recorded in its progress state is the step of the failing activity.
C8_FailFastRecordsStep ==
    status = "FAILED" =>
        /\ Len(scheduled) > 0
        /\ lastError.activity = Current
        /\ inflight = {}
        /\ result = NoResult
        /\ current_step = ClaimedStepOf(Current)
        /\ stepLog[Len(stepLog)] = ClaimedStepOf(Current)

C8_Witness ==
    /\ status = "FAILED" /\ IsFull /\ Current = "generate_images"
    /\ current_step = "GENERATING_IMAGES"

\* The step order the claim C9 states, and the one with UPLOADING_MASK.
ClaimedStepOrder ==
    << "UPLOADING_IMAGE", "RESIZING_IMAGE", "CHECKING_ZOOM", "REMOVING_BACKGROUND",
       "GENERATING_MASK", "REFINING_MASK", "GENERATING_IMAGES", "COMPLETED" >>

AmendedStepOrder ==
    << "UPLOADING_IMAGE", "RESIZING_IMAGE", "CHECKING_ZOOM", "REMOVING_BACKGROUND",
       "GENERATING_MASK", "REFINING_MASK", "UPLOADING_MASK", "GENERATING_IMAGES",
       "COMPLETED" >>

ClaimedActivityOrder ==
    << "upload_to_azure", "resize_image", "check_zoom", "remove_background",
       "generate_mask", "refine_mask", "generate_images" >>

\* What C9 states of the activities: scheduled in the fixed order without
\* repetition, only remove_background and refine_mask possibly absent, at
\* most one in flight, and that one the last scheduled.
C9_Activities ==
    /\ FollowsOrder(ClaimedActivityOrder, scheduled)
    /\ OnlyOptionalAbsent(ClaimedActivityOrder,
                          {"remove_background", "refine_mask"}, scheduled)
    /\ Cardinality(inflight) <= 1
    /\ inflight # {} => (Len(scheduled) > 0 /\ inflight = {Current})
    /\ status = "COMPLETED" => Ran("generate_images")

\* C9 as stated: in the full pipeline the step values stored in currentStep
\* follow the order UPLOADING, RESIZING, CHECKING, [REMOVING_BG],
\* GENERATING_MASK, [REFINING_MASK], GENERATING_IMAGES, COMPLETED with only
\* the bracketed ones possibly absent, and the activities follow suit.
C9_StepOrderAsClaimed ==
    IsFull =>
        /\ FollowsOrder(ClaimedStepOrder, stepLog)
        /\ OnlyOptionalAbsent(ClaimedStepOrder,
                              {"REMOVING_BACKGROUND", "REFINING_MASK"}, stepLog)
        /\ C9_Activities

\* C9 amended: the same with UPLOADING_MASK stored, never skipped, between
\* [REFINING_MASK] and GENERATING_IMAGES (it has no activity).
C9_StepOrderAmended ==
    IsFull =>
        /\ FollowsOrder(AmendedStepOrder, stepLog)
        /\ OnlyOptionalAbsent(AmendedStepOrder,
                              {"REMOVING_BACKGROUND", "REFINING_MASK"}, stepLog)
        /\ (Len(stepLog) > 0 => current_step = stepLog[Len(stepLog)])
        /\ C9_Activities

C9_Witness ==
    /\ IsFull /\ status = "COMPLETED"
    /\ stepLog = AmendedStepOrder
    /\ scheduled = ClaimedActivityOrder

\* C10: in the full pipeline remove_background is scheduled only when the
\* zoom check recommended it and always before generate_mask when it did;
\* refine_mask is scheduled only when the input has at least one brush stroke
\* and always before generate_images when it has; the output's
\* background_removed is true exactly when remove_background ran and its
\* final_mask_uri is refine_mask's result when refine_mask ran, the generated
\* mask otherwise.
C10_ConditionalSteps ==
    IsFull =>
        /\ Ran("remove_background") => locals.recommend_bg_removal
        /\ Ran("generate_mask") =>
               (Ran("remove_background") <=> locals.recommend_bg_removal)
        /\ Ran("refine_mask") =>
               (~brush_strokes.is_none /\ Len(brush_strokes.list) >= 1)
        /\ Ran("generate_images") =>
               (Ran("refine_mask") <=>
                    (~brush_strokes.is_none /\ Len(brush_strokes.list) >= 1))
        /\ status = "COMPLETED" =>
               /\ result.background_removed = Ran("remove_background")
               /\ result.final_mask_uri =
                      IF Ran("refine_mask")
                      THEN locals.refined_mask_uri ELSE "mask"

C10_Witness ==
    /\ IsFull /\ status = "COMPLETED"
    /\ Ran("remove_background") /\ ~Ran("refine_mask")
    /\ brush_strokes = [is_none |-> FALSE, list |-> << >>]
    /\ result.background_removed /\ result.final_mask_uri = "mask"

\* C11: the preprocessing workflow never schedules refine_mask or
\* generate_images, the last activity of a completed run is generate_mask, and
\* when the zoom check did not recommend background removal it never schedules
\* remove_background and returns backgroundRemoved false with no
\* background-removed locator.
C11_PreprocessingStopsAtMask ==
    wfType = "PreprocessingWorkflow" =>
        /\ ~Ran("refine_mask") /\ ~Ran("generate_images")
        /\ status = "COMPLETED" => Current = "generate_mask"
        /\ (Ran("generate_mask") /\ ~locals.recommend_bg_removal) =>
               ~Ran("remove_background")
        /\ (status = "COMPLETED" /\ ~locals.recommend_bg_removal) =>
               /\ result.backgroundRemoved = FALSE
               /\ result.bgRemovedUri = None

C11_Witness ==
    /\ wfType = "PreprocessingWorkflow" /\ status = "COMPLETED"
    /\ scheduled = << "upload_to_azure", "resize_image", "check_zoom",
                      "generate_mask" >>
    /\ result.backgroundRemoved = FALSE /\ result.bgRemovedUri = None

\* The client statuses of the API contract.
ClientStatuses == { "RUNNING", "COMPLETED", "FAILED", "CANCELLED" }

ClaimedStatusOf(s) ==
    CASE s \in { "RUNNING", "CONTINUED_AS_NEW" } -> "RUNNING"
      [] s = "COMPLETED"                         -> "COMPLETED"
      [] s \in { "FAILED", "TIMED_OUT" }         -> "FAILED"
      [] s \in { "CANCELED", "TERMINATED" }      -> "CANCELLED"

\* response answers a describe that returned (not the describe-failed fallback).
Described == response.kind = "response" /\ response.via # "fallback"

\* C12: describe returns one of the seven engine statuses, and get-status
\* answers RUNNING for RUNNING and CONTINUED_AS_NEW, COMPLETED for COMPLETED,
\* FAILED for FAILED and TIMED_OUT, CANCELLED for CANCELED and TERMINATED; the
\* status of every response is one of RUNNING, COMPLETED, FAILED, CANCELLED.
C12_StatusMapping ==
    /\ desc.kind = "ok" => desc.status \in EngineStatuses
    /\ response.kind = "response" => response.status \in ClientStatuses
    /\ Described =>
         /\ response.described \in EngineStatuses
         /\ response.status = ClaimedStatusOf(response.described)

C12_Witness ==
    /\ Described /\ status = "TERMINATED"
    /\ response.described = "TERMINATED" /\ response.status = "CANCELLED"

\* C13: a RUNNING response has progress and currentStep set, a COMPLETED
\* response has a non-null result holding the workflow's output, a FAILED
\* response has a non-null error.
C13_ResponsesCarryPayload ==
    response.kind = "response" =>
        /\ response.status = "RUNNING" =>
               response.progress # NoProgress /\ response.currentStep # None
        /\ response.status = "COMPLETED" =>
               /\ response.result # NoResult
               /\ response.result = _convert_result(result)
        /\ response.status = "FAILED" => response.error # NoErrorBody

\* C14: a FAILED response carries the error code WORKFLOW_FAILED together
\* with the step the workflow last attempted.
C14_FailedNamesLastStep ==
    (response.kind = "response" /\ response.status = "FAILED") =>
        /\ response.error.code = "WORKFLOW_FAILED"
        /\ response.currentStep = current_step

\* The exceptions safe_describe raises after its last attempt failed
\* transiently and the endpoint's `except Exception` catches.
TransientDescribeErrors ==
    { [ exc |-> "TimeoutError", status |-> None ],
      [ exc |-> "RPCError", status |-> "CANCELLED" ],
      [ exc |-> "RPCError", status |-> "DEADLINE_EXCEEDED" ] }

\* C15: a response says CANCELLED only when the engine's status of the
\* execution is CANCELED or TERMINATED and FAILED only when it is FAILED or
\* TIMED_OUT; an answer given after describe failed is RUNNING or COMPLETED.
C15_CancelledOnlyFromEngine ==
    response.kind = "response" =>
        /\ response.status = "CANCELLED" => status \in { "CANCELED", "TERMINATED" }
        /\ response.status = "FAILED" => status \in { "FAILED", "TIMED_OUT" }
        /\ response.via = "fallback" => response.status \in { "RUNNING", "COMPLETED" }

C15_Witness ==
    /\ response.kind = "response" /\ response.via = "fallback"
    /\ response.raised = [ exc |-> "RPCError", status |-> "CANCELLED" ]
    /\ response.status = "RUNNING" /\ status = "RUNNING"

\* C16: when every describe attempt fails transiently and the fallback result
\* fetch gives nothing, the answer is RUNNING with progress 0, whatever the
\* engine's status of the execution.
C16_FallbackAnswersRunning ==
    (response.raised \in TransientDescribeErrors /\ response.fetched = "none") =>
        /\ response.kind = "response"
        /\ response.status = "RUNNING"
        /\ response.progress = 0
        /\ response.currentStep = "PROCESSING"

\* C16: the engine has the execution cancelled, failed or terminated while
\* the answer says RUNNING.
C16_Witness ==
    /\ status \in { "CANCELED", "FAILED", "TERMINATED" }
    /\ response.raised \in TransientDescribeErrors /\ response.fetched = "none"
    /\ response.status = "RUNNING" /\ response.progress = 0

\* The pixels of m below 128, as <<column, row>> from 0.
JewelryPixels(m) ==
    { c \in (0..(m.w - 1)) \X (0..(m.h - 1)) : m.px[c[2] + 1][c[1] + 1] < 128 }

BBoxCalled == called = "get_jewelry_bbox"

CompareCalled == called = "compare_masks_fidelity"

\* C17: get_jewelry_bbox returns None exactly when the mask has no pixel
\* below 128; otherwise x and y are the least foreground column and row,
\* x + width - 1 and y + height - 1 the greatest, every foreground pixel lies
\* inside the box and each of its four edges holds a foreground pixel.
C17_BBoxTight ==
    BBoxCalled =>
        LET fg == JewelryPixels(mask_input)
        IN  /\ (bbox = NoBBox) <=> (fg = {})
            /\ fg # {} =>
                 /\ \A c \in fg :
                      /\ bbox.x <= c[1] /\ c[1] <= bbox.x + bbox.width - 1
                      /\ bbox.y <= c[2] /\ c[2] <= bbox.y + bbox.height - 1
                 /\ \E c \in fg : c[1] = bbox.x
                 /\ \E c \in fg : c[1] = bbox.x + bbox.width - 1
                 /\ \E c \in fg : c[2] = bbox.y
                 /\ \E c \in fg : c[2] = bbox.y + bbox.height - 1

\* A box that touches no border of a 2x2 mask but its right and bottom ones.
C17_Witness ==
    /\ BBoxCalled
    /\ mask_input.w = 2 /\ mask_input.h = 2
    /\ JewelryPixels(mask_input) = { << 1, 1 >> }
    /\ bbox.x = 1 /\ bbox.y = 1 /\ bbox.width = 1 /\ bbox.height = 1

IsZero(q) == q.num = 0 /\ q.den > 0

IsOne(q) == q.num = q.den /\ q.den > 0

InUnitInterval(q) == q.den > 0 /\ 0 <= q.num /\ q.num <= q.den

\* The mask has no pixel below 128 (a missing mask has none).
NoJewelry(m) == m = NoMask \/ JewelryPixels(m) = {}

\* C18: compare_masks_fidelity never raises; when the reference mask has no
\* foreground pixel it returns iou, dice, precision, recall and
\* extra_area_fraction 0 and growth_ratio 1 whatever the candidate is, and
\* when the candidate has no foreground pixel precision is 0.
C18_NoDivisionByZero ==
    CompareCalled =>
        /\ metrics.kind = "dict"
        /\ \A f \in MetricNames : metrics[f].den > 0
        /\ NoJewelry(mask_input) =>
             /\ \A f \in MetricNames \ { "growth_ratio" } : IsZero(metrics[f])
             /\ IsOne(metrics.growth_ratio)
        /\ NoJewelry(mask_output) => IsZero(metrics.precision)

C18_Witness ==
    /\ CompareCalled
    /\ mask_input # NoMask /\ JewelryPixels(mask_input) = {}
    /\ mask_output # NoMask /\ JewelryPixels(mask_output) # {}
    /\ IsOne(metrics.growth_ratio) /\ IsZero(metrics.iou)

\* C19: each of iou, dice, precision, recall and extra_area_fraction returned
\* by compare_masks_fidelity lies in [0,1] and growth_ratio is at least 0.
C19_MetricsInRange ==
    (CompareCalled /\ metrics.kind = "dict") =>
        /\ \A f \in MetricNames \ { "growth_ratio" } : InUnitInterval(metrics[f])
        /\ metrics.growth_ratio.den > 0 /\ metrics.growth_ratio.num >= 0

\* C20: for a mask M with at least one foreground pixel,
\* compare_masks_fidelity(M, M) returns iou, dice, precision, recall and
\* growth_ratio 1 and extra_area_fraction 0.
C20_SelfComparison ==
    (CompareCalled /\ mask_output = mask_input /\ ~NoJewelry(mask_input)) =>
        /\ metrics.kind = "dict"
        /\ \A f \in { "iou", "dice", "precision", "recall", "growth_ratio" } :
             IsOne(metrics[f])
        /\ IsZero(metrics.extra_area_fraction)

C20_Witness ==
    /\ CompareCalled /\ mask_output = mask_input
    /\ mask_input.w = 2 /\ mask_input.h = 2
    /\ Cardinality(JewelryPixels(mask_input)) = 2
    /\ IsOne(metrics.iou) /\ IsOne(metrics.dice)


\* The jewelry of m is one axis-aligned square of side n at column x0, row y0.
IsSquareAt(m, x0, y0, n) ==
    JewelryPixels(m) = (x0..(x0 + n - 1)) \X (y0..(y0 + n - 1))

FracEq(a, b) == a.den # 0 /\ b.den # 0 /\ a.num * b.den = b.num * a.den

SquareParams == (0..(MaxCanvas - 1)) \X (0..(MaxCanvas - 1)) \X (1..MaxCanvas)

PollEnded ==
    poll_pc \in { "returned", "Exception", "TimeoutError", "HTTPStatusError" }

C22_LoopState ==
    /\ poll_pc = "returned" <=> poll_status \in { "completed", "succeeded" }
    /\ poll_pc = "Exception" <=> poll_status = "failed"
    /\ poll_pc = "TimeoutError" => clock > timeout
    /\ poll_pc = "get" => clock <= timeout
    /\ requests >= 2 => waited >= poll_interval
    /\ requests <= (timeout \div poll_interval) + 1

\* C22: the poll loop returns at the first completed or succeeded status,
\* raises at the first failed status, sleeps the poll interval after any
\* other status before it asks again, raises TimeoutError once more than
\* timeout seconds have elapsed, asks nothing more once it has ended, and
\* always ends.
C22_PollTerminates ==
    /\ []C22_LoopState
    /\ [][PollEnded => requests' = requests]_vars
    /\ <>PollEnded

C22_Witness ==
    /\ poll_pc = "TimeoutError"
    /\ requests >= 2
    /\ poll_status \in { "processing", "unknown" }


ShimCalled == shim_result.attempts > 0

ClaimedAttempts(sh) ==
    CASE sh = "safe_describe" -> 3
      [] sh = "safe_query"    -> 2
      [] OTHER                -> 1

\* A timeout, or an RPC error with status CANCELLED or DEADLINE_EXCEEDED.
ClaimedTransient(o) ==
    \/ o.exc = "TimeoutError"
    \/ o.exc = "RPCError" /\ o.status \in { "CANCELLED", "DEADLINE_EXCEEDED" }

\* The retry behaviour the claim states, for the last attempt k the call made.
RetriesAsClaimed ==
    LET k == shim_result.attempts
        last == shim_outs[k]
    IN  /\ k <= ClaimedAttempts(shim)
        /\ \A j \in 1..k :
             (ClaimedTransient(shim_outs[j]) /\ j < ClaimedAttempts(shim)) => k > j
        /\ \A j \in 1..(k - 1) : shim_outs[j] # NoExc
        /\ last = NoExc => (shim_result.returned /\ shim_result.value = "value")
        /\ (last.exc = "RPCError" /\ ~ClaimedTransient(last)) =>
               (~shim_result.returned /\ shim_result.error = last)

\* C23 as claimed: each of safe_describe, safe_query and safe_result retries
\* after a timeout or a CANCELLED / DEADLINE_EXCEEDED RPC error while attempts
\* remain (3 for describe, 2 for query), raises a non-transient RPC error at
\* once, returns the value of the first attempt that succeeds, and raises the
\* last error after its last attempt failed.
C23_ShimsAsClaimed ==
    ShimCalled =>
        /\ RetriesAsClaimed
        /\ (shim_result.attempts = ClaimedAttempts(shim)
                /\ shim_outs[shim_result.attempts] # NoExc) =>
               /\ ~shim_result.returned
               /\ shim_result.error = shim_outs[shim_result.attempts]

\* C23 amended: the same for safe_describe and safe_query; safe_result makes
\* one attempt and, when it fails transiently, returns None instead of raising.
C23_ShimsAmended ==
    ShimCalled =>
        /\ RetriesAsClaimed
        /\ (shim_result.attempts = ClaimedAttempts(shim)
                /\ shim_outs[shim_result.attempts] # NoExc) =>
               IF /\ shim = "safe_result"
                  /\ \/ ClaimedTransient(shim_outs[1])
                     \/ shim_outs[1].exc = "CancelledError"
               THEN /\ shim_result.returned
                    /\ shim_result.value = None
                    /\ shim_result.error = NoExc
               ELSE /\ ~shim_result.returned
                    /\ shim_result.error = shim_outs[shim_result.attempts]

C23_Witness ==
    /\ shim = "safe_describe"
    /\ shim_outs = << [ exc |-> "TimeoutError", status |-> None ],
                      [ exc |-> "RPCError", status |-> "CANCELLED" ],
                      NoExc >>
    /\ shim_result.returned /\ shim_result.attempts = 3


\* While an activity is in flight a query gives the step of that activity.
C24_InFlightStep ==
    \A a \in inflight : current_step = ClaimedStepOf(a)

\* The step values the workflow task just run has stored.
StoredInStep == { stepLog'[i] : i \in (Len(stepLog) + 1)..Len(stepLog') }

\* C24 as claimed: progress is set before each activity is scheduled, so that
\* while an activity is in flight get_progress gives the currentStep of that
\* activity, and every step value a workflow task stores is the one a query
\* can observe once the task has run.
C24_EveryStepObservable ==
    /\ []C24_InFlightStep
    /\ [][\A s \in StoredInStep : s = current_step']_vars

\* C24 amended: the same, except that UPLOADING_MASK is stored and replaced by
\* GENERATING_IMAGES within one workflow task, so that no query observes it.
C24_EveryStepButUploadingMask ==
    /\ []C24_InFlightStep
    /\ [][\A s \in StoredInStep :
            \/ s = current_step'
            \/ s = "UPLOADING_MASK" /\ current_step' = "GENERATING_IMAGES"]_vars

C24_Witness ==
    /\ pc = "await" /\ inflight = { "generate_images" }
    /\ current_step = "GENERATING_IMAGES"
    /\ \E i \in 1..Len(stepLog) : stepLog[i] = "UPLOADING_MASK"


\* C25: once a get-status call has answered COMPLETED, FAILED or CANCELLED,
\* every later get-status call answers that same status, and never RUNNING,
\* whatever transient RPC failures occur.
C25_TerminalAnswersStable ==
    (gs = "responded" /\ answered # None /\ response.kind = "response") =>
        response.status = answered


C26_ProgressInRange ==
    /\ progress >= 0 /\ progress <= 100
    /\ progress = 100 <=> current_step = "COMPLETED"
    /\ steps_completed(wfType, progress) <= total_steps(wfType)
    /\ steps_completed(wfType, progress) = total_steps(wfType) <=> progress = 100

\* C26: in every workflow variant the progress percent a query gives stays
\* within 0..100 and never decreases, it is 100 exactly when currentStep is
\* COMPLETED, and steps_completed never decreases, never exceeds total_steps
\* and equals total_steps exactly when progress is 100.
C26_ProgressMonotone ==
    /\ []C26_ProgressInRange
    /\ [][/\ progress' >= progress
          /\ steps_completed(wfType, progress') >= steps_completed(wfType, progress)]_vars

C26_Witness ==
    /\ wfType = "PreprocessingWorkflow"
    /\ progress = 80 /\ steps_completed(wfType, progress) = 4
    /\ current_step = "GENERATING_MASK"


\* The images whose generation has been scheduled, in the order scheduled.
GeneratedImages ==
    LET gen == SelectSeq(batch.scheduled, LAMBDA e : e.activity = "generate_images")
    IN  [ i \in 1..Len(gen) |-> gen[i].image ]

CompletionEmails ==
    { i \in 1..Len(batch.scheduled) :
        batch.scheduled[i].activity = "send_batch_completion_email" }

IsPrefix(s, t) ==
    /\ Len(s) <= Len(t)
    /\ \A i \in 1..Len(s) : s[i] = t[i]

\* C27: the batch workflow processes its images one at a time in input order,
\* a terminal failure of an image's generation never ends the execution, and
\* when run() returns completed_images + failed_images = total_images = the
\* number of results, with one result per input image in input order and the
\* completion email scheduled exactly once, after the last image.
C27_BatchProcessesEveryImage ==
    /\ IsPrefix(GeneratedImages, batch.images)
    /\ Len(GeneratedImages) \in { Len(batch.results), Len(batch.results) + 1 }
    /\ batch.pc = "generate_images" <=> Len(GeneratedImages) = Len(batch.results) + 1
    /\ \A i \in 1..Len(batch.results) : batch.results[i].image_id = batch.images[i]
    /\ batch.pc = "failed" =>
           batch.scheduled[Len(batch.scheduled)].activity # "generate_images"
    /\ batch.pc = "returned" =>
           /\ batch.output.total_images = Len(batch.images)
           /\ batch.output.completed_images + batch.output.failed_images
                  = batch.output.total_images
           /\ Len(batch.output.results) = batch.output.total_images
           /\ \A i \in 1..Len(batch.images) :
                  batch.output.results[i].image_id = batch.images[i]
           /\ batch.output.completed_images =
                  Cardinality({ i \in 1..Len(batch.output.results) :
                                  batch.output.results[i].success })
           /\ GeneratedImages = batch.images
           /\ CompletionEmails = { Len(batch.scheduled) }

C27_Witness ==
    /\ batch.pc = "returned"
    /\ Len(batch.images) = 3
    /\ ~batch.output.results[1].success
    /\ batch.output.results[2].success
    /\ batch.output.failed_images = 2


\* The calls that have taken a credit of kind k.
Took(k) == { c \in DOMAIN credit.calls : credit.calls[c].took = k }

\* C28: under any interleaving of concurrent use_generation_credit calls for
\* one user, free_generations_used never exceeds free_generations_limit and
\* paid_generations_available never drops below 0; a call that returns True
\* has consumed exactly one credit, a paid one only when no free one remains,
\* and a call that returns False has changed nothing.
C28_CreditsNeverOverdrawn ==
    (credit.pc = "active") =>
        /\ credit.free_generations_used <= credit.free_generations_limit
        /\ credit.paid_generations_available >= 0
        /\ credit.free_generations_used = credit.used0 + Cardinality(Took("free"))
        /\ credit.paid_generations_available = credit.paid0 - Cardinality(Took("paid"))
        /\ \A c \in DOMAIN credit.calls :
             /\ credit.calls[c].returned = "True" =>
                    credit.calls[c].took \in { "free", "paid" }
             /\ credit.calls[c].returned = "False" =>
                    /\ credit.calls[c].took = None
                    /\ \/ ~credit.exists
                       \/ /\ credit.free_generations_used = credit.free_generations_limit
                          /\ credit.paid_generations_available = 0
             /\ credit.calls[c].took = "paid" =>
                    credit.free_generations_used = credit.free_generations_limit

C28_Witness ==
    /\ credit.pc = "active"
    /\ credit.used0 + 1 = credit.free_generations_limit
    /\ credit.paid0 = 1
    /\ credit.calls[1].returned = "True" /\ credit.calls[1].took = "paid"
    /\ credit.calls[2].returned = "True" /\ credit.calls[2].took = "free"


\* C29: terminal batch-job statuses are absorbing: once the row is cancelled,
\* completed or failed, no sequence of start_batch_processing,
\* complete_batch_job and cancel_batch_job changes its status again.
C29_TerminalStatusAbsorbing ==
    (job.pc = "row" /\ job.terminal # None) => job.status = job.terminal


FreeBatchJobs ==
    { i \in 1..Len(creation.batch_jobs) : creation.batch_jobs[i].is_free_batch }

\* C30: under any interleaving of concurrent create_batch_job calls for one
\* user, the jobs created with is_free_batch = true are never more than the
\* free batches the user had left.
C30_FreeBatchesWithinLimit ==
    (creation.pc = "active") =>
        Cardinality(FreeBatchJobs) <= creation.free_batches_limit - creation.used0

====
